---- MODULE Spec2Model ----
(***************************************************************************)
(* Paper-trading ledgers of the fintech-agent repository:                  *)
(*   VirtualTrader      (virtual_trader.py, in memory, one process)        *)
(*   MultiCryptoTrader  (multi_crypto_trader.py, in memory, one process)   *)
(*   PaperBroker        (src/paper_broker.py, async, database backed)      *)
(* and the trading agents that decide and submit orders:                   *)
(*   TradingAgent            (src/agent_nodes.py)                          *)
(*   LangGraphTradingAgent   (src/langgraph_agent.py)                      *)
(* These are separate programs; a behaviour runs one of them, chosen by    *)
(* impl in Init.                                                           *)
(*                                                                         *)
(* Numbers.  Money is counted in 1/10000 dollar so that the basis-point    *)
(* slippage and fee of the broker are whole numbers for the prices used.   *)
(* Quantities are whole units.  Python float and Decimal arithmetic is     *)
(* modelled as exact arithmetic; a quotient that need not be whole (an     *)
(* average price) is kept as a reduced fraction [n, d]; the scale of the    *)
(* Numeric columns of database.py is not modelled.                         *)
(*                                                                         *)
(* The broker.  Each handler (create_order, cancel_order) is a process     *)
(* that takes one step per await.  What a handler writes in its session    *)
(* becomes visible to the others at its commit; a handler whose statement  *)
(* raises closes its session, which rolls its open transaction back.       *)
(***************************************************************************)
EXTENDS Integers, Sequences, FiniteSets, TLC

VARIABLES impl, vt, mct, last, nresets,
          paper_account, paper_position, paper_order, paper_fill, procs,
          workload, agent

\* ------------------------------------------------------------------ bounds
\* Orders accepted by an in-memory trader between two resets.
MaxOrders == 2
\* Calls of reset_portfolio in one behaviour.
MaxResets == 1
\* Rows of the broker's paper_order table.
MaxBrokerOrders == 2

\* ------------------------------------------------------------ input domains
Dollar == 100 * 100
Symbols == {"BTC", "ETH"}
Sides == {"buy", "sell"}
OrderTypes == {"market", "limit"}
\* quantity argument of place_order: the endpoints pass any float through.
Quantities == {-1, 0, 1, 2}
\* price argument of place_order (the current price fetched by the endpoint).
TraderPrices == {5 * Dollar, 1000 * Dollar, 2000 * Dollar}
\* An optional argument: << >> when omitted (Python None), <<v>> when given.
None == << >>
Some(v) == <<v>>
\* starting_cash argument of reset_portfolio.
ResetValues == {None, Some(0), Some(5000 * Dollar)}

\* -------------------------------------------------------------- arithmetic
Abs(x) == IF x < 0 THEN -x ELSE x

RECURSIVE GCD(_, _)
GCD(a, b) == IF b = 0 THEN a ELSE GCD(b, a % b)

\* The fraction n/d (d > 0) in lowest terms; 0 is [0, 1].
Frac(n, d) ==
    LET g == GCD(Abs(n), d)
    IN  IF n = 0 THEN [n |-> 0, d |-> 1] ELSE [n |-> n \div g, d |-> d \div g]

Zero == [n |-> 0, d |-> 1]

\* quantity * avg_price, a fraction.
TimesQty(q, f) == Frac(q * f.n, f.d)

FracAdd(a, b) == Frac(a.n * b.d + b.n * a.d, a.d * b.d)
FracSub(a, b) == Frac(a.n * b.d - b.n * a.d, a.d * b.d)
\* a * b and a > b for fractions (denominators are positive)
FracMul(a, b) == Frac(a.n * b.n, a.d * b.d)
FracGt(a, b) == a.n * b.d > b.n * a.d

RECURSIVE SumFrac(_, _)
\* the sum of the fractions f[x] over x in S
SumFrac(f, S) ==
    IF S = {} THEN Zero
    ELSE LET x == CHOOSE y \in S : TRUE
         IN  FracAdd(f[x], SumFrac(f, S \ {x}))

\* A Python dict as a function whose domain is the set of keys.
EmptyDict == [k \in {} |-> 0]
DictSet(dict, key, value) ==
    [k \in DOMAIN dict \cup {key} |-> IF k = key THEN value ELSE dict[k]]
DictDel(dict, key) == [k \in DOMAIN dict \ {key} |-> dict[k]]

\* ------------------------------------------------------------ VirtualTrader
\* VirtualTrader.__init__
VT_init(starting_cash) ==
    [starting_cash |-> starting_cash,
     cash          |-> starting_cash,
     positions     |-> EmptyDict,
     orders        |-> << >>,
     trade_history |-> << >>]

\* positions.get(symbol, {"quantity": 0.0})["quantity"], the sell check's holding
held(t, symbol) ==
    IF symbol \in DOMAIN t.positions THEN t.positions[symbol].quantity ELSE 0

\* VirtualTrader._execute_order, for the order just appended (the last one).
VT_execute_order(t) ==
    LET i        == Len(t.orders)
        order    == t.orders[i]
        cost     == order.quantity * order.price
        cur      == IF order.symbol \in DOMAIN t.positions
                    THEN t.positions[order.symbol]
                    ELSE [quantity |-> 0, avg_price |-> Zero]
        total_quantity == cur.quantity + order.quantity
        \* total_cost = quantity * avg_price + cost, over the denominator of avg_price
        total_cost_n   == cur.quantity * cur.avg_price.n + cost * cur.avg_price.d
        bought   == [quantity  |-> total_quantity,
                     avg_price |-> IF total_quantity > 0
                                   THEN Frac(total_cost_n, cur.avg_price.d * total_quantity)
                                   ELSE Zero]
        pos2     == IF order.side = "buy"
                    THEN DictSet(t.positions, order.symbol, bought)
                    ELSE IF order.symbol \in DOMAIN t.positions
                    THEN [t.positions EXCEPT ![order.symbol].quantity = @ - order.quantity]
                    ELSE t.positions
        cash2    == IF order.side = "buy" THEN t.cash - cost ELSE t.cash + cost
        trade    == [order_id |-> i, symbol |-> order.symbol, side |-> order.side,
                     quantity |-> order.quantity, price |-> order.price]
    IN  [t |-> [t EXCEPT !.cash = cash2,
                         !.positions = pos2,
                         !.orders[i].status = "filled",
                         !.trade_history = Append(t.trade_history, trade)],
         success |-> TRUE,
         message |-> "Order executed"]

\* VirtualTrader.place_order
VT_place_order(t, symbol, side, quantity, price, order_type) ==
    LET order == [symbol |-> symbol, side |-> side, quantity |-> quantity,
                  price |-> price, order_type |-> order_type, status |-> "pending"]
        t1    == [t EXCEPT !.orders = Append(t.orders, order)]
    IN  IF side = "buy" /\ quantity * price > t.cash
        THEN [t |-> t, success |-> FALSE, message |-> "Insufficient cash"]
        ELSE IF side = "sell" /\ quantity > held(t, symbol)
        THEN [t |-> t, success |-> FALSE, message |-> "Insufficient position"]
        ELSE IF order_type = "market"
        THEN VT_execute_order(t1)
        ELSE [t |-> t1, success |-> TRUE, message |-> "Order placed successfully"]

\* VirtualTrader.reset_portfolio: "if starting_cash:" skips None and 0.
VT_reset_portfolio(t, starting_cash) ==
    LET sc == IF starting_cash # None /\ starting_cash[1] # 0
              THEN starting_cash[1] ELSE t.starting_cash
    IN  [starting_cash |-> sc,
         cash          |-> sc,
         positions     |-> EmptyDict,
         orders        |-> << >>,
         trade_history |-> << >>]

\* current_prices argument of get_portfolio: a dict from some of the symbols
\* to their live price (the price feed may leave a symbol out).
LivePrices == {5 * Dollar, 2000 * Dollar}
PriceDicts == UNION {[S -> LivePrices] : S \in SUBSET Symbols}

\* VirtualTrader.get_portfolio.  The list of Position objects is the set of its
\* elements; amounts are fractions because avg_price is one.  pnl_pct and
\* total_pnl_pct, percentages of the amounts kept here, are left out.
VT_get_portfolio(t, current_prices) ==
    LET shown == {s \in DOMAIN t.positions : t.positions[s].quantity # 0}
        \* current_prices.get(symbol, pos["avg_price"])
        current_price(s) == IF s \in DOMAIN current_prices
                            THEN Frac(current_prices[s], 1)
                            ELSE t.positions[s].avg_price
        position_value(s) == TimesQty(t.positions[s].quantity, current_price(s))
        total_position_value == SumFrac([s \in shown |-> position_value(s)], shown)
        total_value == FracAdd(Frac(t.cash, 1), total_position_value)
    IN  [cash      |-> t.cash,
         positions |-> {[symbol        |-> s,
                         quantity      |-> t.positions[s].quantity,
                         avg_price     |-> t.positions[s].avg_price,
                         current_price |-> current_price(s),
                         pnl |-> FracSub(position_value(s),
                                         TimesQty(t.positions[s].quantity,
                                                  t.positions[s].avg_price))]
                        : s \in shown},
         total_value |-> total_value,
         total_pnl   |-> FracSub(total_value, Frac(t.starting_cash, 1))]

\* -------------------------------------------------------- MultiCryptoTrader
\* MultiCryptoTrader.__init__: trading parameters
min_trade_size == 10
\* max_position_pct = 0.3, as the fraction max_position_pct_num / 10
max_position_pct_num == 3

\* MultiCryptoTrader.__init__
MCT_init(starting_cash) == VT_init(starting_cash)

\* sum(pos["quantity"] * price for pos in self.positions.values())
RECURSIVE SumQuantity(_, _)
SumQuantity(positions, keys) ==
    IF keys = {} THEN 0
    ELSE LET k == CHOOSE x \in keys : TRUE
         IN  positions[k].quantity + SumQuantity(positions, keys \ {k})

\* MultiCryptoTrader._execute_order, for the order just appended.
MCT_execute_order(t) ==
    LET i        == Len(t.orders)
        order    == t.orders[i]
        cost     == order.quantity * order.price
        cur      == IF order.symbol \in DOMAIN t.positions
                    THEN t.positions[order.symbol]
                    ELSE [quantity |-> 0, avg_price |-> Zero]
        total_quantity == cur.quantity + order.quantity
        total_cost_n   == cur.quantity * cur.avg_price.n + cost * cur.avg_price.d
        bought   == [quantity  |-> total_quantity,
                     avg_price |-> IF total_quantity > 0
                                   THEN Frac(total_cost_n, cur.avg_price.d * total_quantity)
                                   ELSE Zero]
        \* quantity <= 0.000001 removes the position; quantities are whole here
        pos2     == IF order.side = "buy"
                    THEN DictSet(t.positions, order.symbol, bought)
                    ELSE IF order.symbol \in DOMAIN t.positions
                    THEN IF cur.quantity - order.quantity <= 0
                         THEN DictDel(t.positions, order.symbol)
                         ELSE [t.positions EXCEPT
                                  ![order.symbol].quantity = @ - order.quantity]
                    ELSE t.positions
        cash2    == IF order.side = "buy" THEN t.cash - cost ELSE t.cash + cost
        trade    == [order_id |-> i, symbol |-> order.symbol, side |-> order.side,
                     quantity |-> order.quantity, price |-> order.price]
    IN  [t |-> [t EXCEPT !.cash = cash2,
                         !.positions = pos2,
                         !.orders[i].status = "filled",
                         !.trade_history = Append(t.trade_history, trade)],
         success |-> TRUE,
         message |-> "Order executed"]

\* MultiCryptoTrader.place_order
MCT_place_order(t, symbol, side, quantity, price, order_type) ==
    LET trade_value == quantity * price
        current_position_value ==
            IF symbol \in DOMAIN t.positions
            THEN t.positions[symbol].quantity * price ELSE 0
        new_position_value    == current_position_value + trade_value
        total_portfolio_value ==
            t.cash + SumQuantity(t.positions, DOMAIN t.positions) * price
        order == [symbol |-> symbol, side |-> side, quantity |-> quantity,
                  price |-> price, order_type |-> order_type, status |-> "pending"]
        t1    == [t EXCEPT !.orders = Append(t.orders, order)]
    IN  IF trade_value < min_trade_size * Dollar
        THEN [t |-> t, success |-> FALSE, message |-> "below minimum"]
        ELSE IF side = "buy" /\ trade_value > t.cash
        THEN [t |-> t, success |-> FALSE, message |-> "Insufficient cash"]
        \* position_pct = new_position_value / (total_portfolio_value + trade_value)
        ELSE IF side = "buy"
                /\ new_position_value * 10
                     > max_position_pct_num * (total_portfolio_value + trade_value)
        THEN [t |-> t, success |-> FALSE, message |-> "Position limit"]
        ELSE IF side = "sell" /\ quantity > held(t, symbol)
        THEN [t |-> t, success |-> FALSE, message |-> "Insufficient position"]
        ELSE IF order_type = "market"
        THEN MCT_execute_order(t1)
        ELSE [t |-> t1, success |-> TRUE, message |-> "Order placed successfully"]

\* MultiCryptoTrader.reset_portfolio
MCT_reset_portfolio(t, starting_cash) == VT_reset_portfolio(t, starting_cash)

\* MultiCryptoTrader.get_portfolio: a position enters the list only when its
\* symbol is in current_prices.  pnl_pct, total_pnl_pct, largest_position and
\* diversification_score, computed from the amounts kept here, are left out.
MCT_get_portfolio(t, current_prices) ==
    LET shown == {s \in DOMAIN t.positions :
                     t.positions[s].quantity # 0 /\ s \in DOMAIN current_prices}
        market_value(s) == Frac(t.positions[s].quantity * current_prices[s], 1)
        total_position_value == SumFrac([s \in shown |-> market_value(s)], shown)
        total_value == FracAdd(Frac(t.cash, 1), total_position_value)
    IN  [cash      |-> t.cash,
         total_value |-> total_value,
         total_pnl   |-> FracSub(total_value, Frac(t.starting_cash, 1)),
         positions |-> {[symbol        |-> s,
                         quantity      |-> t.positions[s].quantity,
                         avg_price     |-> t.positions[s].avg_price,
                         current_price |-> Frac(current_prices[s], 1),
                         market_value  |-> market_value(s),
                         pnl |-> FracSub(market_value(s),
                                         TimesQty(t.positions[s].quantity,
                                                  t.positions[s].avg_price))]
                        : s \in shown},
         position_count |-> Cardinality(shown)]

\* target_allocations argument of rebalance_suggestions: None, or a dict from
\* some of the symbols to a fraction of the portfolio.
TargetFractions == {Zero, Frac(1, 2)}
TargetDicts == {None} \cup UNION {[S -> TargetFractions] : S \in SUBSET Symbols}

\* MultiCryptoTrader.rebalance_suggestions; the list of suggestions is the set
\* of its elements ("reason", a text of the value, is left out).  "if not
\* target_allocations" takes None and the empty dict alike.
MCT_rebalance_suggestions(t, current_prices, target_allocations) ==
    LET num_assets == Cardinality(DOMAIN current_prices)
        targets == IF target_allocations = None \/ DOMAIN target_allocations = {}
                   THEN [s \in DOMAIN current_prices |-> Frac(1, num_assets)]
                   ELSE target_allocations
        portfolio == MCT_get_portfolio(t, current_prices)
        current_value(s) ==
            IF \E pos \in portfolio.positions : pos.symbol = s
            THEN (CHOOSE pos \in portfolio.positions : pos.symbol = s).market_value
            ELSE Zero
        difference(s) == FracSub(FracMul(portfolio.total_value, targets[s]),
                                 current_value(s))
        size(s) == Frac(Abs(difference(s).n), difference(s).d)
    IN  {[action   |-> IF difference(s).n > 0 THEN "buy" ELSE "sell",
          symbol   |-> s,
          quantity |-> FracMul(size(s), Frac(1, current_prices[s])),
          value    |-> size(s)]
         : s \in {x \in DOMAIN targets \cap DOMAIN current_prices :
                     FracGt(Frac(Abs(difference(x).n), difference(x).d),
                            Frac(min_trade_size * Dollar, 1))}}

\* -------------------------------------------------------------- PaperBroker
\* Settings.slippage_bps, Settings.fee_bps, Settings.starting_cash_usd
slippage_bps == 5
fee_bps == 10
starting_cash_usd == 10000
\* Settings.max_position_pct = 0.2, as the fraction settings_max_position_pct_num / 10
settings_max_position_pct_num == 2
\* the divisor of "bps / 10000" in _execute_market_order
BpsDivisor == 10000

\* The broker is exercised under one of three workloads, fixed in Init:
\*   "sequential"  one handler at a time, one user, every kind of request;
\*   "concurrent"  two handlers at once on one account, orders of one BTC;
\*   "accounts"    two handlers at once, each for its own user, one price.
Workloads == {"sequential", "concurrent", "accounts"}
\* concurrent request handlers (coroutines) of the broker
Procs == IF workload = "sequential" THEN {1} ELSE {1, 2}
Users == IF workload = "accounts" THEN {1, 2} ELSE {1}
\* the users whose requests handler p serves: in the accounts workload each
\* handler works for a user of its own
UsersOf(p) == IF workload = "accounts" THEN {p} ELSE Users
LimitPrice == 2000 * Dollar
\* a limit price over some of the prices fetched
HighLimitPrice == 6000 * Dollar
\* a limit price under the minimum trade size of MultiCryptoTrader
SmallPrice == 5 * Dollar
\* what CoinDeskClient.get_latest_price can return (None: no price)
PBPrices ==
    IF workload = "sequential"
    THEN {None, Some(2000 * Dollar), Some(6000 * Dollar)}
    ELSE IF workload = "concurrent" THEN {Some(2000 * Dollar), Some(6000 * Dollar)}
    ELSE {Some(2000 * Dollar)}

MarketOrder(instrument, side, quantity) ==
    [instrument |-> instrument, side |-> side, order_type |-> "market",
     quantity |-> quantity, notional |-> None, limit_price |-> None]

LimitOrder(instrument, side, quantity, limit_price) ==
    [MarketOrder(instrument, side, quantity) EXCEPT
        !.order_type = "limit", !.limit_price = limit_price]

\* Arguments of create_order.  A notional is one that the prices above divide.
AllRequests ==
    {MarketOrder(i, s, Some(q)) : i \in Symbols, s \in Sides, q \in {1, 2}}
    \cup
    {[MarketOrder("BTC", "buy", None) EXCEPT !.notional = Some(6003 * Dollar)],
     [MarketOrder("BTC", "sell", None) EXCEPT !.notional = Some(5997 * Dollar)]}
    \cup
    {LimitOrder("BTC", s, Some(1), Some(LimitPrice)) : s \in Sides}
    \cup
    {MarketOrder("BTC", "buy", None),
     [MarketOrder("BTC", "buy", Some(1)) EXCEPT !.notional = Some(6003 * Dollar)]}
    \cup
    {MarketOrder("BTC", "buy", Some(0)), MarketOrder("BTC", "buy", Some(-1))}
    \cup
    {LimitOrder("BTC", "sell", Some(1), Some(SmallPrice)),
     LimitOrder("BTC", "sell", Some(1), Some(HighLimitPrice))}

OrderRequests ==
    IF workload = "sequential" THEN AllRequests
    ELSE IF workload = "concurrent"
    THEN {MarketOrder("BTC", s, Some(1)) : s \in Sides}
         \cup {LimitOrder("BTC", "buy", Some(1), Some(LimitPrice))}
    ELSE {MarketOrder("BTC", "buy", Some(1)),
          LimitOrder("BTC", "sell", Some(1), Some(LimitPrice))}

\* "if quantity": None and 0 are false
Truthy(opt) == opt # None /\ opt[1] # 0

\* the execution price with the slippage added whatever the side
ExecutionPriceAdds(current_price, side) ==
    current_price + (current_price * slippage_bps) \div BpsDivisor

\* slippage = current_price * (slippage_bps / 10000); buy adds it, sell subtracts
ExecutionPrice(current_price, side) ==
    LET slippage == (current_price * slippage_bps) \div BpsDivisor
    IN  IF side = "buy" THEN current_price + slippage ELSE current_price - slippage

\* fee = notional * (fee_bps / 10000)
Fee(notional) == (notional * fee_bps) \div BpsDivisor

\* net_notional = notional - fee if side == "buy" else notional + fee
NetNotional(notional, side) ==
    IF side = "buy" THEN notional - Fee(notional) ELSE notional + Fee(notional)

\* quantity, notional of an order at an execution price (lines 146-151)
Resolve(order, execution_price) ==
    IF Truthy(order.quantity)
    THEN [quantity |-> order.quantity[1],
          notional |-> order.quantity[1] * execution_price]
    ELSE [quantity |-> order.notional[1] \div execution_price,
          notional |-> order.notional[1]]

\* PaperBroker._update_position on the position object read (qty 0, avg 0 when new)
PB_update_position(position, quantity, price, side) ==
    IF side = "buy"
    THEN IF position.qty = 0
         THEN [position EXCEPT !.qty = quantity, !.avg_price = Frac(price, 1)]
         ELSE [position EXCEPT
                 !.qty = position.qty + quantity,
                 !.avg_price = Frac(position.qty * position.avg_price.n
                                      + quantity * price * position.avg_price.d,
                                    position.avg_price.d * (position.qty + quantity))]
    ELSE [position EXCEPT
            !.qty = IF position.qty - quantity < 0 THEN 0 ELSE position.qty - quantity]

\* The tables of database.py as sequences of rows; a row's id is its index.
\* paper_account has no unique constraint on user_id, paper_position none on
\* (account_id, instrument).
AccountsOf(user_id) ==
    {a \in 1..Len(paper_account) : paper_account[a].user_id = user_id}
\* the select of _update_position without its account_id condition
PositionsOfInstrument(account_id, instrument) ==
    {i \in 1..Len(paper_position) : paper_position[i].instrument = instrument}
PositionsOf(account_id, instrument) ==
    {i \in 1..Len(paper_position) :
        /\ paper_position[i].account_id = account_id
        /\ paper_position[i].instrument = instrument}
FillsOf(order_id) == {f \in 1..Len(paper_fill) : paper_fill[f].order_id = order_id}

NoRequest == [instrument |-> "", side |-> "", order_type |-> "", quantity |-> None,
              notional |-> None, limit_price |-> None]
NoPosition == [qty |-> 0, avg_price |-> Zero]
\* A handler between calls.
IdleProc == [pc |-> "idle", op |-> "", user |-> 0, acct |-> 0, req |-> NoRequest,
             order_id |-> 0, current_price |-> None, price |-> 0, qty |-> 0,
             fee |-> 0, net |-> 0, posrow |-> 0, position |-> NoPosition,
             cash_balance |-> 0]

\* The handler returns or raises; what it returns is not kept.
Returned(p, result) == IdleProc

PBUnchangedTraders == UNCHANGED <<impl, vt, mct, last, nresets, workload, agent>>

\* PaperBroker.get_or_create_account, the select (scalar_one_or_none raises on
\* several rows).  next is where the caller goes on.
GetAccount(p, call, next) ==
    LET ids == AccountsOf(call.user)
    IN  procs' = [procs EXCEPT ![p] =
            IF Cardinality(ids) > 1
            THEN IdleProc
            ELSE IF ids = {}
            THEN [call EXCEPT !.pc = "create_account"]
            ELSE [call EXCEPT !.pc = next, !.acct = CHOOSE a \in ids : TRUE]]

\* create_order is called: account = await self.get_or_create_account(user_id)
PBCreateOrderCall(p) ==
    /\ impl = "PB"
    /\ procs[p].pc = "idle"
    /\ Len(paper_order)
          + Cardinality({q \in Procs : procs[q].pc \in {"create_account", "add_order"}
                                       /\ procs[q].op = "create_order"})
          < MaxBrokerOrders
    /\ \E user \in UsersOf(p), req \in OrderRequests :
          GetAccount(p, [IdleProc EXCEPT !.op = "create_order", !.user = user,
                                         !.req = req], "add_order")
    /\ UNCHANGED <<paper_account, paper_position, paper_order, paper_fill>>
    /\ PBUnchangedTraders

\* get_or_create_account: session.add(account); commit
PBCreateAccount(p) ==
    /\ impl = "PB"
    /\ procs[p].pc = "create_account"
    /\ paper_account' = Append(paper_account,
          [user_id |-> procs[p].user,
           starting_cash |-> starting_cash_usd * Dollar,
           cash_balance |-> starting_cash_usd * Dollar])
    /\ procs' = [procs EXCEPT ![p].acct = Len(paper_account) + 1,
                              ![p].cash_balance =
                                  IF procs[p].op = "get_portfolio_summary"
                                  THEN starting_cash_usd * Dollar ELSE 0,
                              ![p].pc = IF procs[p].op = "create_order"
                                        THEN "add_order"
                                        ELSE IF procs[p].op = "cancel_order"
                                        THEN "select_order"
                                        ELSE "summary_account"]
    /\ UNCHANGED <<paper_position, paper_order, paper_fill>>
    /\ PBUnchangedTraders

\* create_order lines 92-112: the two ValueErrors, then the order row is committed
PBAddOrder(p) ==
    LET req == procs[p].req
    IN  /\ impl = "PB"
        /\ procs[p].pc = "add_order"
        /\ IF (~Truthy(req.quantity) /\ ~Truthy(req.notional))
              \/ (Truthy(req.quantity) /\ Truthy(req.notional))
           THEN /\ procs' = [procs EXCEPT ![p] = Returned(p, "ValueError")]
                /\ UNCHANGED paper_order
           ELSE /\ paper_order' = Append(paper_order,
                     [account_id |-> procs[p].acct, instrument |-> req.instrument,
                      side |-> req.side, order_type |-> req.order_type,
                      quantity |-> req.quantity, notional |-> req.notional,
                      limit_price |-> req.limit_price, status |-> "created"])
                /\ procs' = [procs EXCEPT ![p].order_id = Len(paper_order) + 1,
                                          ![p].pc = "execute"]
        /\ UNCHANGED <<paper_account, paper_position, paper_fill>>
        /\ PBUnchangedTraders

\* order.status = status; await session.commit(); return: the UPDATE names the row
\* by id and overwrites whatever status it has.
SetStatus(p, status) ==
    /\ paper_order' = [paper_order EXCEPT ![procs[p].order_id].status = status]
    /\ procs' = [procs EXCEPT ![p] = Returned(p, status)]

\* order.status = "created"; commit; return: the object was loaded with that
\* status, so the commit writes nothing.
LeaveCreated(p) ==
    /\ procs' = [procs EXCEPT ![p] = Returned(p, "created")]
    /\ UNCHANGED paper_order

\* lines 146-159 and 205-218: quantity, notional, fee, net_notional, the cash check
\* on order.account.cash_balance, read now
RiskCheck(p, execution_price) ==
    LET order == paper_order[procs[p].order_id]
        r     == Resolve(order, execution_price)
        net   == NetNotional(r.notional, order.side)
        cash  == paper_account[order.account_id].cash_balance
    IN  IF order.side = "buy" /\ net > cash
        THEN SetStatus(p, "rejected")
        ELSE /\ procs' = [procs EXCEPT ![p].pc = "select_position",
                                       ![p].price = execution_price,
                                       ![p].qty = r.quantity,
                                       ![p].fee = Fee(r.notional),
                                       ![p].net = net]
             /\ UNCHANGED paper_order

\* current_price = await client.get_latest_price(order.instrument), of
\* _execute_market_order and of _execute_limit_order
PBFetchPrice(p) ==
    /\ impl = "PB"
    /\ procs[p].pc = "execute"
    /\ \E current_price \in PBPrices :
          procs' = [procs EXCEPT ![p].pc = "priced",
                                 ![p].current_price = current_price]
    /\ UNCHANGED <<paper_account, paper_position, paper_order, paper_fill>>
    /\ PBUnchangedTraders

\* _execute_market_order that returns on a missing price without the rejection
PBExecuteMarketKeepsCreated(p) ==
    /\ impl = "PB"
    /\ procs[p].pc = "priced"
    /\ paper_order[procs[p].order_id].order_type = "market"
    /\ LET current_price == procs[p].current_price
       IN  IF ~Truthy(current_price)
           THEN LeaveCreated(p)
           ELSE RiskCheck(p, ExecutionPrice(current_price[1],
                                            paper_order[procs[p].order_id].side))
    /\ UNCHANGED <<paper_account, paper_position, paper_fill>>
    /\ PBUnchangedTraders

\* PaperBroker._execute_market_order from the price to the risk check
PBExecuteMarket(p) ==
    /\ impl = "PB"
    /\ procs[p].pc = "priced"
    /\ paper_order[procs[p].order_id].order_type = "market"
    /\ LET current_price == procs[p].current_price
       IN  IF ~Truthy(current_price)
           THEN SetStatus(p, "rejected")
           ELSE RiskCheck(p, ExecutionPrice(current_price[1],
                                            paper_order[procs[p].order_id].side))
    /\ UNCHANGED <<paper_account, paper_position, paper_fill>>
    /\ PBUnchangedTraders

\* _execute_limit_order without the test of the price against the limit
PBExecuteLimitAnyPrice(p) ==
    LET order == paper_order[procs[p].order_id]
        current_price == procs[p].current_price
    IN  /\ impl = "PB"
        /\ procs[p].pc = "priced"
        /\ order.order_type = "limit"
        /\    IF ~Truthy(current_price)
              THEN SetStatus(p, "rejected")
              ELSE RiskCheck(p, order.limit_price[1])
        /\ UNCHANGED <<paper_account, paper_position, paper_fill>>
        /\ PBUnchangedTraders

\* PaperBroker._execute_limit_order from the price to the risk check
PBExecuteLimit(p) ==
    LET order == paper_order[procs[p].order_id]
        current_price == procs[p].current_price
    IN  /\ impl = "PB"
        /\ procs[p].pc = "priced"
        /\ order.order_type = "limit"
        /\    IF ~Truthy(current_price)
              THEN SetStatus(p, "rejected")
              ELSE IF (order.side = "buy" /\ current_price[1] <= order.limit_price[1])
                      \/ (order.side = "sell" /\ current_price[1] >= order.limit_price[1])
              THEN RiskCheck(p, order.limit_price[1])
              ELSE LeaveCreated(p)
        /\ UNCHANGED <<paper_account, paper_position, paper_fill>>
        /\ PBUnchangedTraders

\* _update_position: the select of the position row and the change of the object
PBSelectPosition(p) ==
    LET order == paper_order[procs[p].order_id]
        rows  == PositionsOf(order.account_id, order.instrument)
        row   == CHOOSE i \in rows : TRUE
        read  == IF rows = {} THEN NoPosition
                 ELSE [qty |-> paper_position[row].qty,
                       avg_price |-> paper_position[row].avg_price]
    IN  /\ impl = "PB"
        /\ procs[p].pc = "select_position"
        /\ procs' = [procs EXCEPT ![p] =
              IF Cardinality(rows) > 1
              THEN Returned(p, "error")
              \* total_cost / position.qty with position.qty == 0 raises
              ELSE IF order.side = "buy" /\ read.qty # 0
                      /\ read.qty + procs[p].qty = 0
              THEN Returned(p, "error")
              ELSE [procs[p] EXCEPT
                      !.pc = "update_cash",
                      !.posrow = IF rows = {} THEN 0 ELSE row,
                      !.position = PB_update_position(read, procs[p].qty,
                                                      procs[p].price, order.side)]]
        /\ UNCHANGED <<paper_account, paper_position, paper_order, paper_fill>>
        /\ PBUnchangedTraders

\* _update_cash_balance: the fill and the position are flushed (CHECK qty >= 0),
\* the UPDATE of cash_balance is sent; nothing is visible before the commit
PBUpdateCash(p) ==
    /\ impl = "PB"
    /\ procs[p].pc = "update_cash"
    /\ procs' = [procs EXCEPT ![p] =
          IF procs[p].position.qty < 0
          THEN Returned(p, "error")
          ELSE [procs[p] EXCEPT !.pc = "commit"]]
    /\ UNCHANGED <<paper_account, paper_position, paper_order, paper_fill>>
    /\ PBUnchangedTraders

\* The fill and the cash change without the position row.
CommitFillNoPosition(p) ==
    LET me    == procs[p]
        order == paper_order[me.order_id]
    IN  /\ paper_fill' = Append(paper_fill,
              [order_id |-> me.order_id, price |-> me.price, qty |-> me.qty,
               fee |-> me.fee])
        /\ UNCHANGED paper_position
        /\ paper_account' = [paper_account EXCEPT ![order.account_id].cash_balance =
              IF order.side = "buy" THEN @ - me.net ELSE @ + me.net]
        /\ paper_order' = [paper_order EXCEPT ![me.order_id].status = "filled"]
        /\ procs' = [procs EXCEPT ![p] = IdleProc]

\* The transaction of lines 161-174, as the commit applies it: the fill row, the
\* position row written with the values computed from the row read, cash_balance
\* changed relative to its current value, the order's status
CommitFill(p) ==
    LET me    == procs[p]
        order == paper_order[me.order_id]
        row   == [account_id |-> order.account_id, instrument |-> order.instrument,
                  qty |-> me.position.qty, avg_price |-> me.position.avg_price]
    IN  /\ paper_fill' = Append(paper_fill,
              [order_id |-> me.order_id, price |-> me.price, qty |-> me.qty,
               fee |-> me.fee])
        /\ paper_position' = IF me.posrow = 0 THEN Append(paper_position, row)
                             ELSE [paper_position EXCEPT ![me.posrow] = row]
        /\ paper_account' = [paper_account EXCEPT ![order.account_id].cash_balance =
              IF order.side = "buy" THEN @ - me.net ELSE @ + me.net]
        /\ SetStatus(p, "filled")

PBCommit(p) ==
    /\ impl = "PB"
    /\ procs[p].pc = "commit"
    /\ CommitFill(p)
    /\ PBUnchangedTraders

\* A statement of the execution raises (a database error, a timeout, a lost
\* connection, an operation the values at hand do not support): the session is
\* closed, which rolls the open transaction back.
PBFail(p) ==
    /\ impl = "PB"
    /\ procs[p].pc \in {"execute", "priced", "select_position", "update_cash",
                       "commit"}
    /\ procs' = [procs EXCEPT ![p] = Returned(p, "error")]
    /\ UNCHANGED <<paper_account, paper_position, paper_order, paper_fill>>
    /\ PBUnchangedTraders

\* cancel_order is called: account = await self.get_or_create_account(user_id)
PBCancelCall(p) ==
    /\ impl = "PB"
    /\ procs[p].pc = "idle"
    /\ \E user \in UsersOf(p), order_id \in 1..MaxBrokerOrders :
          GetAccount(p, [IdleProc EXCEPT !.op = "cancel_order", !.user = user,
                                         !.order_id = order_id], "select_order")
    /\ UNCHANGED <<paper_account, paper_position, paper_order, paper_fill>>
    /\ PBUnchangedTraders

\* cancel_order: the select of the order by id, account and status "created"
PBSelectOrder(p) ==
    LET id == procs[p].order_id
    IN  /\ impl = "PB"
        /\ procs[p].pc = "select_order"
        /\ procs' = [procs EXCEPT ![p] =
              IF /\ id <= Len(paper_order)
                 /\ paper_order[id].account_id = procs[p].acct
                 /\ paper_order[id].status = "created"
              THEN [procs[p] EXCEPT !.pc = "cancel_commit"]
              ELSE Returned(p, "False")]
        /\ UNCHANGED <<paper_account, paper_position, paper_order, paper_fill>>
        /\ PBUnchangedTraders

\* cancel_order: order.status = "canceled"; commit
PBCancelCommit(p) ==
    /\ impl = "PB"
    /\ procs[p].pc = "cancel_commit"
    /\ paper_order' = [paper_order EXCEPT ![procs[p].order_id].status = "canceled"]
    /\ procs' = [procs EXCEPT ![p] = Returned(p, "True")]
    /\ UNCHANGED <<paper_account, paper_position, paper_fill>>
    /\ PBUnchangedTraders

\* PaperBroker.get_positions on the rows of an account: those of qty > 0, each
\* with market_value = qty * avg_price (updated_at is left out)
PB_get_positions(account_id) ==
    {[instrument   |-> paper_position[i].instrument,
      quantity     |-> paper_position[i].qty,
      avg_price    |-> paper_position[i].avg_price,
      market_value |-> TimesQty(paper_position[i].qty, paper_position[i].avg_price),
      row          |-> i]
     : i \in {j \in 1..Len(paper_position) :
                 /\ paper_position[j].account_id = account_id
                 /\ paper_position[j].qty > 0}}

\* what get_portfolio_summary returns from the cash balance of the account it
\* loaded and the positions it was given (pnl_pct is left out)
PB_get_portfolio_summary(user_id, cash_balance, starting_cash, positions) ==
    LET total_position_value ==
            SumFrac([x \in positions |-> x.market_value], positions)
        total_value == FracAdd(Frac(cash_balance, 1), total_position_value)
    IN  [user_id |-> user_id,
         cash_balance |-> cash_balance,
         positions |-> positions,
         total_position_value |-> total_position_value,
         total_value |-> total_value,
         pnl |-> FracSub(total_value, Frac(starting_cash, 1))]

\* get_portfolio_summary is called:
\* account = await self.get_or_create_account(user_id)
PBSummaryCall(p) ==
    /\ impl = "PB"
    /\ procs[p].pc = "idle"
    /\ \E user \in UsersOf(p) :
          LET ids  == AccountsOf(user)
              call == [IdleProc EXCEPT !.op = "get_portfolio_summary",
                                       !.user = user]
              a    == CHOOSE x \in ids : TRUE
          IN  procs' = [procs EXCEPT ![p] =
                  IF Cardinality(ids) > 1
                  THEN IdleProc
                  ELSE IF ids = {}
                  THEN [call EXCEPT !.pc = "create_account"]
                  ELSE [call EXCEPT !.pc = "summary_account", !.acct = a,
                                    !.cash_balance = paper_account[a].cash_balance]]
    /\ UNCHANGED <<paper_account, paper_position, paper_order, paper_fill>>
    /\ PBUnchangedTraders

\* get_positions: account = await self.get_or_create_account(user_id), the
\* second select of the account (it exists by now)
PBSummaryAccount(p) ==
    /\ impl = "PB"
    /\ procs[p].pc = "summary_account"
    /\ procs' = [procs EXCEPT ![p] =
          IF Cardinality(AccountsOf(procs[p].user)) > 1
          THEN IdleProc
          ELSE [procs[p] EXCEPT !.pc = "summary_positions"]]
    /\ UNCHANGED <<paper_account, paper_position, paper_order, paper_fill>>
    /\ PBUnchangedTraders

\* get_positions: the select of the account's position rows; then
\* get_portfolio_summary computes its result and returns it
PBSummaryPositions(p) ==
    /\ impl = "PB"
    /\ procs[p].pc = "summary_positions"
    /\ procs' = [procs EXCEPT ![p] =
          Returned(p, PB_get_portfolio_summary(
                         procs[p].user, procs[p].cash_balance,
                         paper_account[procs[p].acct].starting_cash,
                         PB_get_positions(procs[p].acct)))]
    /\ UNCHANGED <<paper_account, paper_position, paper_order, paper_fill>>
    /\ PBUnchangedTraders

\* ------------------------------------------------------- the trading agents
\* TradingAgent (src/agent_nodes.py) and LangGraphTradingAgent
\* (src/langgraph_agent.py) run one cycle of six nodes over a state created
\* afresh for the cycle.  What the market, news and broker clients return is
\* an input of the node that calls them.

\* TradingAgent.nodes, in the order execute_cycle runs them.
AgentNodes == <<"collect", "analyze", "risk", "decide", "act", "explain">>
END == "END"

CheckNames == {"max_position_check", "daily_loss_check", "volatility_check",
               "news_shock_check", "liquidity_check"}

\* get_portfolio_summary as the agent reads it: the cash, and of the position
\* in the agent's instrument the quantity and the market value.
AgentPortfolio(cash_balance, quantity, market_value) ==
    [cash_balance |-> cash_balance, quantity |-> quantity,
     market_value |-> market_value, total_value |-> cash_balance + market_value]
AgentPortfolios ==
    {AgentPortfolio(10000 * Dollar, 0, 0),
     AgentPortfolio(8000 * Dollar, 1, 2000 * Dollar),
     AgentPortfolio(0, 2, 4000 * Dollar),
     AgentPortfolio(100 * Dollar, 0, 0)}

\* calculate_all_indicators as the nodes read it: the current price and, in
\* tenths, the signal score the rules of DecideNode give these indicators and
\* the news.
SignalScores == {-5, 0, 5}
AgentIndicators ==
    [current_price : {0, 2000 * Dollar}, signal_score : SignalScores]

\* AgentState.__init__ / the initial_state of execute_cycle; an empty dict is
\* None.  orders are the create_order calls the cycle has made.
AgentState(next_action) ==
    [node |-> next_action, ran |-> << >>, market_data |-> "empty",
     portfolio |-> None, indicators |-> None, risk_checks |-> << >>,
     decision |-> None, action |-> None, orders |-> << >>]

\* RiskNode.execute / risk_node up to the except clause.  The loss, volatility,
\* news and volume figures are inputs; risk_node computes no liquidity check.
RiskChecks(program, portfolio, indicators, daily_loss, volatility, news_shock, liquidity) ==
    LET all_pass == [c \in CheckNames |-> TRUE]
    IN  IF portfolio = None \/ indicators = None THEN all_pass
        ELSE IF indicators[1].current_price <= 0 THEN all_pass
        ELSE LET total_value == portfolio[1].total_value
                 current_position_value == portfolio[1].market_value
             IN  [c \in CheckNames |->
                    CASE c = "max_position_check" ->
                           IF total_value > 0
                           THEN current_position_value * 10
                                  <= settings_max_position_pct_num * total_value
                           ELSE TRUE
                      [] c = "daily_loss_check" -> daily_loss
                      [] c = "volatility_check" -> volatility
                      [] c = "news_shock_check" -> news_shock
                      [] c = "liquidity_check" ->
                           IF program = "LG" THEN TRUE ELSE liquidity]

\* not state.risk_checks or not all(state.risk_checks.values())
RiskChecksFailed(risk_checks) ==
    \/ DOMAIN risk_checks = {}
    \/ \E c \in DOMAIN risk_checks : ~risk_checks[c]

FracMin(a, b) == IF FracGt(a, b) THEN b ELSE a

Hold(reasoning) == [action |-> "hold", quantity |-> Zero, reasoning |-> reasoning]

\* The rules of DecideNode.execute below its risk gate.
DecideRules(state) ==
    IF state.indicators = None \/ state.portfolio = None THEN Hold("")
    ELSE LET current_price == state.indicators[1].current_price
             signal_score == state.indicators[1].signal_score
             total_value == state.portfolio[1].total_value
             cash_balance == state.portfolio[1].cash_balance
             current_position == state.portfolio[1].quantity
         IN  IF current_price <= 0 THEN Hold("")
             ELSE IF signal_score > 3 /\ cash_balance * 10 > current_price
             THEN [action |-> "buy",
                   quantity |-> FracMin(Frac(cash_balance, 10 * current_price),
                                        Frac(total_value, 20 * current_price)),
                   reasoning |-> "signals"]
             ELSE IF signal_score < -3 /\ current_position > 0
             THEN [action |-> "sell",
                   quantity |-> FracMin(Frac(current_position, 1),
                                        Frac(current_position, 2)),
                   reasoning |-> "signals"]
             ELSE Hold("signals")

\* A DecideNode without the risk gate.
DecideNodeUngated(state, raises) ==
    IF raises THEN Hold("Error") ELSE DecideRules(state)

\* DecideNode.execute: the decision it stores; raises is whether a statement
\* of its try block raised.
DecideNode(state, raises) ==
    IF raises THEN Hold("Error")
    ELSE IF RiskChecksFailed(state.risk_checks) THEN Hold("Risk checks failed")
    ELSE DecideRules(state)

\* decide_node: past the risk gate it awaits llm_analyze_and_decide, whose
\* first statement reads settings.trading_mode; Settings (config.py) has no
\* such field, the AttributeError is caught by decide_node's except clause.
decide_node(state) ==
    IF RiskChecksFailed(state.risk_checks) THEN Hold("Risk checks failed")
    ELSE Hold("Error")

\* The guard of ActNode.execute / act_node: whether create_order is called.
Submits(decision) ==
    /\ decision # None
    /\ decision[1].action # "hold"
    /\ FracGt(decision[1].quantity, Zero)

\* ------------------------------------------------- the in-memory programs
\* trader = VirtualTrader(10000.0) in main.py, MultiCryptoTrader(10000.0) in
\* enhanced_main.py
starting_cash_default == 10000

broker == <<paper_account, paper_position, paper_order, paper_fill, procs, workload>>

Impls == {"VT", "MCT", "PB", "TA", "LG"}

\* What the last call was and, of place_order, what it returned; a snapshot or
\* a list of suggestions returned is not kept.
NoCall == [op |-> "none", success |-> FALSE, message |-> ""]

Init ==
    /\ impl \in Impls
    /\ vt = VT_init(starting_cash_default * Dollar)
    /\ mct = MCT_init(starting_cash_default * Dollar)
    /\ last = NoCall
    /\ nresets = 0
    /\ paper_account = << >>
    /\ paper_position = << >>
    /\ paper_order = << >>
    /\ paper_fill = << >>
    /\ procs = [p \in {1, 2} |-> IdleProc]
    /\ workload \in IF impl = "PB" THEN Workloads ELSE {"none"}
    /\ agent = AgentState("idle")

\* POST /trade of main.py: trader.place_order(symbol, side, quantity, price, type)
VTPlaceOrder ==
    /\ impl = "VT"
    /\ Len(vt.orders) < MaxOrders
    /\ \E symbol \in Symbols, side \in Sides, quantity \in Quantities,
          price \in TraderPrices, order_type \in OrderTypes :
          LET r == VT_place_order(vt, symbol, side, quantity, price, order_type)
          IN  /\ vt' = r.t
              /\ last' = [op |-> "place_order", success |-> r.success,
                          message |-> r.message]
    /\ UNCHANGED <<impl, mct, nresets, agent>>
    /\ UNCHANGED broker

\* POST /reset of main.py: trader.reset_portfolio(starting_cash)
VTReset ==
    /\ impl = "VT"
    /\ nresets < MaxResets
    /\ \E starting_cash \in ResetValues :
          /\ vt' = VT_reset_portfolio(vt, starting_cash)
          /\ last' = [op |-> "reset_portfolio", success |-> TRUE,
                      message |-> IF starting_cash = None THEN "None" ELSE "value"]
    /\ nresets' = nresets + 1
    /\ UNCHANGED <<impl, mct, agent>>
    /\ UNCHANGED broker

\* POST /trade of enhanced_main.py
MCTPlaceOrder ==
    /\ impl = "MCT"
    /\ Len(mct.orders) < MaxOrders
    /\ \E symbol \in Symbols, side \in Sides, quantity \in Quantities,
          price \in TraderPrices, order_type \in OrderTypes :
          LET r == MCT_place_order(mct, symbol, side, quantity, price, order_type)
          IN  /\ mct' = r.t
              /\ last' = [op |-> "place_order", success |-> r.success,
                          message |-> r.message]
    /\ UNCHANGED <<impl, vt, nresets, agent>>
    /\ UNCHANGED broker

\* POST /reset of enhanced_main.py
MCTReset ==
    /\ impl = "MCT"
    /\ nresets < MaxResets
    /\ \E starting_cash \in ResetValues :
          /\ mct' = MCT_reset_portfolio(mct, starting_cash)
          /\ last' = [op |-> "reset_portfolio", success |-> TRUE,
                      message |-> IF starting_cash = None THEN "None" ELSE "value"]
    /\ nresets' = nresets + 1
    /\ UNCHANGED <<impl, vt, agent>>
    /\ UNCHANGED broker

\* GET /portfolio of main.py: trader.get_portfolio(current_prices)
VTGetPortfolio ==
    /\ impl = "VT"
    /\ \E current_prices \in PriceDicts :
          last' = [op |-> "get_portfolio", success |-> TRUE,
                   message |-> ""]
    /\ UNCHANGED <<impl, vt, mct, nresets, agent>>
    /\ UNCHANGED broker

\* GET /portfolio of enhanced_main.py
MCTGetPortfolio ==
    /\ impl = "MCT"
    /\ \E current_prices \in PriceDicts :
          last' = [op |-> "get_portfolio", success |-> TRUE,
                   message |-> ""]
    /\ UNCHANGED <<impl, vt, mct, nresets, agent>>
    /\ UNCHANGED broker

\* rebalance_suggestions that places the orders it suggests
MCTRebalanceSubmits ==
    /\ impl = "MCT"
    /\ \E current_prices \in PriceDicts, target_allocations \in TargetDicts :
          LET suggestions == MCT_rebalance_suggestions(mct, current_prices,
                                                       target_allocations)
          IN  /\ last' = [op |-> "rebalance_suggestions", success |-> TRUE,
                          message |-> ""]
              /\ mct' = IF suggestions = {} THEN mct
                        ELSE [mct EXCEPT !.orders = Append(@,
                                [symbol |-> (CHOOSE x \in suggestions : TRUE).symbol,
                                 side |-> (CHOOSE x \in suggestions : TRUE).action,
                                 quantity |-> 1,
                                 price |-> current_prices[
                                     (CHOOSE x \in suggestions : TRUE).symbol],
                                 order_type |-> "limit", status |-> "pending"])]
    /\ UNCHANGED <<impl, vt, nresets, agent>>
    /\ UNCHANGED broker

\* GET /portfolio/rebalance of enhanced_main.py:
\* trader.rebalance_suggestions(prices)
MCTRebalance ==
    /\ impl = "MCT"
    /\ \E current_prices \in PriceDicts, target_allocations \in TargetDicts :
          last' = [op |-> "rebalance_suggestions", success |-> TRUE,
                   message |-> ""]
    /\ UNCHANGED <<impl, vt, mct, nresets, agent>>
    /\ UNCHANGED broker

\* ------------------------------------------------------- the agents' steps
\* The node that runs after node n: the next of TradingAgent.nodes, or the
\* next_action each LangGraph node sets, which should_continue follows.
NextNode(n) ==
    IF n = "explain" THEN END
    ELSE AgentNodes[(CHOOSE k \in DOMAIN AgentNodes : AgentNodes[k] = n) + 1]

Ran(n) == [agent EXCEPT !.node = NextNode(n), !.ran = Append(@, n)]

AgentUnchanged ==
    /\ UNCHANGED <<impl, vt, mct, last, nresets>>
    /\ UNCHANGED broker

\* execute_cycle: a fresh state, entry point collect.
AgentCycle ==
    /\ impl \in {"TA", "LG"}
    /\ agent.node \in {"idle", END}
    /\ agent' = AgentState("collect")
    /\ AgentUnchanged

\* CollectNode.execute / collect_node: the clients answer, or one raises.
AgentCollect ==
    /\ impl \in {"TA", "LG"}
    /\ agent.node = "collect"
    /\ \/ \E market_data \in {"empty", "no_ohlc", "ohlc"},
            portfolio \in AgentPortfolios :
            agent' = [Ran("collect") EXCEPT !.market_data = market_data,
                                            !.portfolio = Some(portfolio)]
       \/ agent' = [Ran("collect") EXCEPT !.market_data = "empty",
                                          !.portfolio = None]
    /\ AgentUnchanged

\* AnalyzeNode.execute / analyze_node
AgentAnalyze ==
    /\ impl \in {"TA", "LG"}
    /\ agent.node = "analyze"
    /\ IF agent.market_data # "ohlc"
       THEN agent' = [Ran("analyze") EXCEPT !.indicators = None]
       ELSE \/ \E indicators \in AgentIndicators :
                 agent' = [Ran("analyze") EXCEPT !.indicators = Some(indicators)]
            \/ agent' = [Ran("analyze") EXCEPT !.indicators = None]
    /\ AgentUnchanged

\* RiskNode.execute / risk_node; a statement that raises leaves
\* {"error": str(e)}, truthy unless the message is empty.
AgentRisk ==
    /\ impl \in {"TA", "LG"}
    /\ agent.node = "risk"
    /\ \/ \E daily_loss, volatility, news_shock, liquidity \in BOOLEAN :
            agent' = [Ran("risk") EXCEPT !.risk_checks =
                        RiskChecks(impl, agent.portfolio, agent.indicators,
                                   daily_loss, volatility, news_shock,
                                   liquidity)]
       \/ \E message \in BOOLEAN :
            agent' = [Ran("risk") EXCEPT !.risk_checks =
                        [c \in {"error"} |-> message]]
    /\ AgentUnchanged

\* DecideNode.execute
TADecide ==
    /\ impl = "TA"
    /\ agent.node = "decide"
    /\ \E raises \in BOOLEAN :
          agent' = [Ran("decide") EXCEPT !.decision =
                      Some(DecideNode(agent, raises))]
    /\ AgentUnchanged

\* decide_node
LGDecide ==
    /\ impl = "LG"
    /\ agent.node = "decide"
    /\ agent' = [Ran("decide") EXCEPT !.decision = Some(decide_node(agent))]
    /\ AgentUnchanged

\* ActNode.execute / act_node: create_order returns or raises.
AgentAct ==
    /\ impl \in {"TA", "LG"}
    /\ agent.node = "act"
    /\ IF Submits(agent.decision)
       THEN \E executed \in BOOLEAN :
              agent' = [Ran("act") EXCEPT
                          !.orders = Append(@, [side |-> agent.decision[1].action,
                                                order_type |-> "market",
                                                quantity |-> agent.decision[1].quantity]),
                          !.action = Some([executed |-> executed])]
       ELSE agent' = [Ran("act") EXCEPT !.action = Some([executed |-> FALSE])]
    /\ AgentUnchanged

\* ExplainNode.execute / explain_node
AgentExplain ==
    /\ impl \in {"TA", "LG"}
    /\ agent.node = "explain"
    /\ agent' = Ran("explain")
    /\ AgentUnchanged

vars == <<impl, vt, mct, last, nresets,
          paper_account, paper_position, paper_order, paper_fill, procs,
          workload, agent>>

NextTraders ==
    \/ VTPlaceOrder
    \/ VTReset
    \/ MCTPlaceOrder
    \/ MCTReset
    \/ VTGetPortfolio
    \/ MCTGetPortfolio
    \/ MCTRebalance

NextPB ==
    \/ \E p \in Procs : PBCreateOrderCall(p)
    \/ \E p \in Procs : PBCreateAccount(p)
    \/ \E p \in Procs : PBAddOrder(p)
    \/ \E p \in Procs : PBFetchPrice(p)
    \/ \E p \in Procs : PBExecuteMarket(p)
    \/ \E p \in Procs : PBExecuteLimit(p)
    \/ \E p \in Procs : PBSelectPosition(p)
    \/ \E p \in Procs : PBUpdateCash(p)
    \/ \E p \in Procs : PBCommit(p)
    \/ \E p \in Procs : PBFail(p)
    \/ \E p \in Procs : PBCancelCall(p)
    \/ \E p \in Procs : PBSelectOrder(p)
    \/ \E p \in Procs : PBCancelCommit(p)
    \/ \E p \in Procs : PBSummaryCall(p)
    \/ \E p \in Procs : PBSummaryAccount(p)
    \/ \E p \in Procs : PBSummaryPositions(p)

NextAgent ==
    \/ AgentCycle
    \/ AgentCollect
    \/ AgentAnalyze
    \/ AgentRisk
    \/ TADecide
    \/ LGDecide
    \/ AgentAct
    \/ AgentExplain

Next == NextTraders \/ NextPB \/ NextAgent

\* Every program and workload.
Spec == Init /\ [][Next]_vars

\* The in-memory traders alone.
InitTraders == Init /\ impl \in {"VT", "MCT"}
SpecTraders == InitTraders /\ [][NextTraders]_vars

\* MultiCryptoTrader alone.
InitMCT == Init /\ impl = "MCT"
NextMCT ==
    \/ MCTPlaceOrder
    \/ MCTReset
    \/ MCTGetPortfolio
    \/ MCTRebalance
SpecMCT == InitMCT /\ [][NextMCT]_vars

\* The agents alone.
InitAgent == Init /\ impl \in {"TA", "LG"}
SpecAgent == InitAgent /\ [][NextAgent]_vars

\* The broker under one workload.
InitSeq == Init /\ workload = "sequential"
SpecSeq == InitSeq /\ [][NextPB]_vars
InitCon == Init /\ workload = "concurrent"
SpecCon == InitCon /\ [][NextPB]_vars
InitAcc == Init /\ workload = "accounts"
SpecAcc == InitAcc /\ [][NextPB]_vars

\* The broker, one account: one handler at a time or two at once.
InitBroker == Init /\ workload \in {"sequential", "concurrent"}
SpecBroker == InitBroker /\ [][NextPB]_vars

\* ------------------------------------------------- what the properties use
RECURSIVE SumFn(_, _)
\* the sum of f[x] over x in S
SumFn(f, S) ==
    IF S = {} THEN 0
    ELSE LET x == CHOOSE y \in S : TRUE
         IN  f[x] + SumFn(f, S \ {x})

\* the ways to put the elements of S in a row
Orderings(S) ==
    {s \in [1..Cardinality(S) -> S] : \A x \in S : \E k \in DOMAIN s : s[k] = x}
InOrder(S) ==
    CHOOSE s \in Orderings(S) : \A j, k \in DOMAIN s : j < k => s[j] < s[k]

OrderOfFill(f) == paper_order[paper_fill[f].order_id]
FillNotional(f) == paper_fill[f].qty * paper_fill[f].price
FillsOfAccount(a) ==
    {f \in 1..Len(paper_fill) : OrderOfFill(f).account_id = a}
FillsOfPosition(a, instrument) ==
    {f \in FillsOfAccount(a) : OrderOfFill(f).instrument = instrument}
BuyFills(S) == {f \in S : OrderOfFill(f).side = "buy"}
SellFills(S) == {f \in S : OrderOfFill(f).side = "sell"}

\* what a fill adds to cash_balance as the code computes it
SignedNet(f) ==
    IF OrderOfFill(f).side = "buy"
    THEN 0 - NetNotional(FillNotional(f), "buy")
    ELSE NetNotional(FillNotional(f), "sell")

RECURSIVE Replay(_, _)
\* the position after the fills of the row fills, applied one at a time
Replay(fills, position) ==
    IF fills = << >> THEN position
    ELSE Replay(Tail(fills),
                PB_update_position(position, paper_fill[Head(fills)].qty,
                                   paper_fill[Head(fills)].price,
                                   OrderOfFill(Head(fills)).side))

QtyAvg(row) == [qty |-> row.qty, avg_price |-> row.avg_price]

\* ------------------------------------------------------------------ C1
\* C1: in every reachable state of VirtualTrader, MultiCryptoTrader and
\* PaperBroker the cash balance is >= 0 and every position's quantity is >= 0.
NoNegativeState ==
    /\ vt.cash >= 0
    /\ \A s \in DOMAIN vt.positions : vt.positions[s].quantity >= 0
    /\ mct.cash >= 0
    /\ \A s \in DOMAIN mct.positions : mct.positions[s].quantity >= 0
    /\ \A a \in 1..Len(paper_account) : paper_account[a].cash_balance >= 0
    /\ \A i \in 1..Len(paper_position) : paper_position[i].qty >= 0

\* ------------------------------------------------------------------ C2
\* what the two buys cost by the rule "notional plus fee"
BuyCost(f) == FillNotional(f) + paper_fill[f].fee

AllOrNothing ==
    /\ \A a \in 1..Len(paper_account) :
          paper_account[a].cash_balance =
              paper_account[a].starting_cash
              + SumFn([f \in FillsOfAccount(a) |-> SignedNet(f)], FillsOfAccount(a))
    /\ \A f \in 1..Len(paper_fill) :
          PositionsOf(OrderOfFill(f).account_id, OrderOfFill(f).instrument) # {}
    /\ \A i \in 1..Len(paper_position) :
          FillsOfPosition(paper_position[i].account_id,
                          paper_position[i].instrument) # {}
    /\ workload = "sequential" =>
          \A i \in 1..Len(paper_position) :
              QtyAvg(paper_position[i]) =
                  Replay(InOrder(FillsOfPosition(paper_position[i].account_id,
                                                 paper_position[i].instrument)),
                         NoPosition)

\* One order is filled and a later market order was left "created" by a handler
\* that failed and is gone: its transaction was rolled back.
FilledThenFailed ==
    /\ Len(paper_fill) >= 1
    /\ \A p \in Procs : procs[p].pc = "idle"
    /\ \E o \in 1..Len(paper_order) :
          /\ paper_order[o].order_type = "market"
          /\ paper_order[o].status = "created"
          /\ \E f \in 1..Len(paper_fill) : paper_fill[f].order_id < o

Held(a, instrument) ==
    SumFn([i \in PositionsOf(a, instrument) |-> paper_position[i].qty],
          PositionsOf(a, instrument))

\* this step records a fill
NewFill == Len(paper_fill') = Len(paper_fill) + 1

TraderBook(t) ==
    FracAdd(Frac(t.cash, 1),
            SumFrac([s \in DOMAIN t.positions |->
                        TimesQty(t.positions[s].quantity, t.positions[s].avg_price)],
                    DOMAIN t.positions))

\* cash_balance plus the entry cost of an account's position rows
AccountBook(a) ==
    LET rows == {i \in 1..Len(paper_position) : paper_position[i].account_id = a}
    IN  FracAdd(Frac(paper_account[a].cash_balance, 1),
                SumFrac([i \in rows |->
                            TimesQty(paper_position[i].qty, paper_position[i].avg_price)],
                        rows))

TradesOf(t, symbol) ==
    {k \in 1..Len(t.trade_history) : t.trade_history[k].symbol = symbol}

\* (q1 + ... + qn, (q1*p1 + ... + qn*pn) / (q1 + ... + qn)) of the trades K
BoughtByTrades(t, K) ==
    LET q == SumFn([k \in K |-> t.trade_history[k].quantity], K)
        c == SumFn([k \in K |-> t.trade_history[k].quantity
                                  * t.trade_history[k].price], K)
    IN  [quantity |-> q, avg_price |-> Frac(c, q)]

\* the same of the fills F
BoughtByFills(F) ==
    LET q == SumFn([f \in F |-> paper_fill[f].qty], F)
        c == SumFn([f \in F |-> FillNotional(f)], F)
    IN  [qty |-> q, avg_price |-> Frac(c, q)]

OnlyBuysOfSize(t, symbol) ==
    /\ TradesOf(t, symbol) # {}
    /\ \A k \in TradesOf(t, symbol) :
          t.trade_history[k].side = "buy" /\ t.trade_history[k].quantity > 0

PositionOrNone(t, symbol) ==
    IF symbol \in DOMAIN t.positions /\ t.positions[symbol].quantity # 0
    THEN t.positions[symbol]
    ELSE [quantity |-> 0, avg_price |-> Zero]

\* r.t is t with quantity less of symbol, at the same avg_price, and the rest alike
SoldExactly(t, r, symbol, quantity) ==
    /\ held(r.t, symbol) = held(t, symbol) - quantity
    /\ symbol \in DOMAIN r.t.positions =>
          r.t.positions[symbol].avg_price = t.positions[symbol].avg_price
    /\ \A other \in Symbols \ {symbol} :
          PositionOrNone(r.t, other) = PositionOrNone(t, other)

CancelStep(p) ==
    /\ procs'[p] # procs[p]
    /\ procs[p].op = "cancel_order" \/ procs'[p].op = "cancel_order"

\* the order a cancel_order names exists, is of the caller's account and is
\* in status "created"
Cancelable(id, acct) ==
    /\ id \in 1..Len(paper_order)
    /\ paper_order[id].account_id = acct
    /\ paper_order[id].status = "created"

Executing(o) ==
    \E p \in Procs : /\ procs[p].op = "create_order"
                     /\ procs[p].order_id = o
                     /\ procs[p].pc \in {"execute", "priced", "select_position",
                                         "update_cash", "commit"}

\* C13: a market order is in status "created" only while the create_order
\* call that persisted it is running; once the call has returned or failed,
\* whatever raised, the order has left "created".
MarketOrderResolved ==
    \A o \in 1..Len(paper_order) :
        (paper_order[o].order_type = "market" /\ paper_order[o].status = "created")
            => Executing(o)

\* ------------------------------------------------------------------ C14
\* C14: when the price gateway returned no price, the step of the market or
\* limit execution that follows marks the order "rejected" and returns (no
\* second price request), and records no fill and changes no account and no
\* position.
NoPriceRejected ==
    [][\A p \in Procs :
          (/\ procs[p].pc = "priced"
           /\ ~Truthy(procs[p].current_price)
           /\ PBExecuteMarket(p) \/ PBExecuteLimit(p))
          => /\ paper_order'[procs[p].order_id].status = "rejected"
             /\ procs'[p].pc = "idle"
             /\ paper_fill' = paper_fill
             /\ paper_account' = paper_account
             /\ paper_position' = paper_position
      ]_vars

\* A sell was rejected, which only a missing price does, and its call is over.
SellRejectedForNoPrice ==
    \E o \in 1..Len(paper_order) :
        /\ paper_order[o].side = "sell"
        /\ paper_order[o].status = "rejected"
        /\ FillsOf(o) = {}
        /\ ~Executing(o)

\* ------------------------------------------------------------------ C15
\* both quantity and notional, or neither
InvalidSpec(req) ==
    \/ Truthy(req.quantity) /\ Truthy(req.notional)
    \/ ~Truthy(req.quantity) /\ ~Truthy(req.notional)

\* C15: a create_order call given both quantity and notional, or neither,
\* creates or changes no account, order, fill or position row in any of its
\* steps, and ends without executing anything.
InvalidSpecMutatesNothing ==
    [][\A p \in Procs :
          (/\ procs[p].op = "create_order"
           /\ InvalidSpec(procs[p].req)
           /\ procs'[p] # procs[p])
          => /\ paper_account' = paper_account
             /\ paper_order' = paper_order
             /\ paper_fill' = paper_fill
             /\ paper_position' = paper_position
             /\ procs'[p].pc \in {"idle", "create_account", "add_order"}
      ]_vars

\* ------------------------------------------------------------------ C16
\* a step of a create_order call whose quantity is zero or negative
NonPositiveStep(p) ==
    /\ procs[p].op = "create_order"
    /\ procs[p].req.quantity # None
    /\ procs[p].req.quantity[1] <= 0
    /\ procs'[p] # procs[p]

\* C16: an order of quantity zero or less, buy or sell, is refused by
\* place_order and leaves the trader as it was, and a create_order call with
\* such a quantity changes no account, order, fill or position row.
NonPositiveRejected ==
    [][/\ \A symbol \in Symbols, side \in Sides, price \in TraderPrices,
            order_type \in OrderTypes, quantity \in {q \in Quantities : q <= 0} :
            /\ LET r == VT_place_order(vt, symbol, side, quantity, price, order_type)
               IN  ~r.success /\ r.t = vt
            /\ LET r == MCT_place_order(mct, symbol, side, quantity, price, order_type)
               IN  ~r.success /\ r.t = mct
       /\ \A p \in Procs : NonPositiveStep(p) =>
            /\ paper_account' = paper_account
            /\ paper_order' = paper_order
            /\ paper_fill' = paper_fill
            /\ paper_position' = paper_position
      ]_vars

PortfolioTotalValue(t, mp) ==
    t.cash + SumFn([s \in DOMAIN t.positions |-> t.positions[s].quantity * mp[s]],
                   DOMAIN t.positions)

\* C18: a buy is accepted only if (value of the position held in the
\* instrument + trade value) / (portfolio total value + trade value) is at
\* most max_position_pct, the portfolio total value being cash plus the
\* market value of every position held; a refused buy changes nothing.
\* MultiCryptoTrader: for all market prices mp in which the instrument has the
\* order's price.  PaperBroker: for the first buy of an account that holds
\* nothing, whose portfolio is its cash.
PositionConcentration ==
    [][/\ \A symbol \in Symbols, quantity \in Quantities, price \in TraderPrices,
            order_type \in OrderTypes, mp \in [Symbols -> TraderPrices] :
            mp[symbol] = price =>
                LET r == MCT_place_order(mct, symbol, "buy", quantity, price,
                                         order_type)
                    trade_value == quantity * price
                    existing    == held(mct, symbol) * price
                IN  IF r.success
                    THEN (existing + trade_value) * 10
                           <= max_position_pct_num
                                * (PortfolioTotalValue(mct, mp) + trade_value)
                    ELSE r.t = mct
       /\ NewFill =>
            LET fill  == paper_fill'[Len(paper_fill')]
                order == paper_order[fill.order_id]
                a     == order.account_id
                trade_value == fill.qty * fill.price
            IN  (/\ order.side = "buy"
                 /\ \A i \in 1..Len(paper_position) :
                       paper_position[i].account_id # a)
                => trade_value * 10
                     <= settings_max_position_pct_num
                          * (paper_account[a].cash_balance + trade_value)
      ]_vars

\* ------------------------------------------------------------------ C19
\* C19: no user has two accounts, whatever calls of get_or_create_account
\* run at once, and an account with no fill holds exactly its starting cash,
\* Settings.starting_cash_usd.
OneAccountPerUser ==
    /\ \A a, b \in 1..Len(paper_account) :
          paper_account[a].user_id = paper_account[b].user_id => a = b
    /\ \A a \in 1..Len(paper_account) :
          /\ paper_account[a].starting_cash = starting_cash_usd * Dollar
          /\ FillsOfAccount(a) = {} =>
                paper_account[a].cash_balance = paper_account[a].starting_cash

\* ------------------------------------------------------------------ C20
\* r is the trader t after reset_portfolio(starting_cash)
ResetTo(t, r, starting_cash) ==
    /\ r.positions = EmptyDict
    /\ r.orders = << >>
    /\ r.trade_history = << >>
    /\ r.cash = r.starting_cash
    /\ r.starting_cash = IF starting_cash = None THEN t.starting_cash
                         ELSE starting_cash[1]

\* C20: from any reachable state, reset_portfolio(v) leaves starting_cash =
\* cash = v for any supplied v, reset_portfolio() leaves cash = starting_cash
\* as it was, and both leave positions, orders and trade history empty.
ResetRestores ==
    \A starting_cash \in ResetValues :
        /\ ResetTo(vt, VT_reset_portfolio(vt, starting_cash), starting_cash)
        /\ ResetTo(mct, MCT_reset_portfolio(mct, starting_cash), starting_cash)

\* ------------------------------------------------------------------ C22
\* this step is a call of rebalance_suggestions
RebalanceStep == last'.op = "rebalance_suggestions" /\ impl = "MCT"

\* C22: a call of rebalance_suggestions, whatever the prices and the target
\* allocations, submits no order and leaves cash, starting cash, positions,
\* orders and trade history as they were.
RebalanceAdvisoryOnly ==
    [][RebalanceStep =>
          /\ mct'.cash = mct.cash
          /\ mct'.starting_cash = mct.starting_cash
          /\ mct'.positions = mct.positions
          /\ mct'.orders = mct.orders
          /\ mct'.trade_history = mct.trade_history]_vars

\* rebalance_suggestions has returned, for a portfolio that holds a position
\* and has filled orders, a list with a buy and a sell suggestion.
SuggestedNotSubmitted ==
    /\ impl = "MCT"
    /\ last.op = "rebalance_suggestions"
    /\ mct.positions # EmptyDict
    /\ Len(mct.orders) = Len(mct.trade_history)
    /\ Len(mct.orders) > 0
    /\ \E current_prices \in PriceDicts, target_allocations \in TargetDicts :
          LET suggestions == MCT_rebalance_suggestions(mct, current_prices,
                                                       target_allocations)
          IN  /\ \E x \in suggestions : x.action = "buy"
              /\ \E x \in suggestions : x.action = "sell"

\* ------------------------------------------------------------------ C26
\* the positions of non-zero quantity
NonFlat(t) == {s \in DOMAIN t.positions : t.positions[s].quantity # 0}

\* the price a position is valued at: the live price, or avg_price without one
ValuationPrice(t, current_prices, s) ==
    IF s \in DOMAIN current_prices THEN Frac(current_prices[s], 1)
    ELSE t.positions[s].avg_price

\* quantity * valuation price
MarketValue(t, current_prices, s) ==
    TimesQty(t.positions[s].quantity, ValuationPrice(t, current_prices, s))

\* cash + the sum of the market values of the positions of non-zero quantity
TotalValue(t, current_prices) ==
    FracAdd(Frac(t.cash, 1),
            SumFrac([s \in NonFlat(t) |-> MarketValue(t, current_prices, s)],
                    NonFlat(t)))

\* the snapshot snap of trader t at the prices given is complete and adds up
SnapshotComplete(t, current_prices, snap) ==
    /\ {pos.symbol : pos \in snap.positions} = NonFlat(t)
    /\ \A pos \in snap.positions :
          /\ pos.quantity = t.positions[pos.symbol].quantity
          /\ pos.current_price = ValuationPrice(t, current_prices, pos.symbol)
    /\ snap.total_value = TotalValue(t, current_prices)
    /\ snap.total_pnl = FracSub(snap.total_value, Frac(t.starting_cash, 1))

\* C26: the snapshot of get_portfolio has every position of non-zero quantity,
\* valued at quantity * live price, or at quantity * avg_price when no live
\* price is given for its instrument; total_value is cash plus the sum of
\* those values and total_pnl is total_value - starting_cash.
SnapshotValuation ==
    \A current_prices \in PriceDicts :
        /\ SnapshotComplete(vt, current_prices,
                            VT_get_portfolio(vt, current_prices))
        /\ LET snap == MCT_get_portfolio(mct, current_prices)
           IN  /\ SnapshotComplete(mct, current_prices, snap)
               /\ \A pos \in snap.positions :
                     pos.market_value = MarketValue(mct, current_prices, pos.symbol)

\* ------------------------------------------------------------------ C27
\* the fraction of the portfolio each targeted instrument is to have
TargetsOf(current_prices, target_allocations) ==
    IF target_allocations = None
    THEN [s \in DOMAIN current_prices |->
             Frac(1, Cardinality(DOMAIN current_prices))]
    ELSE target_allocations

\* target value less current market value of instrument s
Difference(t, current_prices, targets, s) ==
    FracSub(FracMul(TotalValue(t, current_prices), targets[s]),
            IF s \in NonFlat(t) THEN MarketValue(t, current_prices, s) ELSE Zero)

FracAbs(a) == Frac(Abs(a.n), a.d)

\* the suggestions the rule gives
SuggestionsDue(t, current_prices, target_allocations) ==
    LET targets == TargetsOf(current_prices, target_allocations)
        priced  == DOMAIN targets \cap DOMAIN current_prices
        diff(s) == Difference(t, current_prices, targets, s)
    IN  {[action   |-> IF diff(s).n > 0 THEN "buy" ELSE "sell",
          symbol   |-> s,
          quantity |-> FracMul(FracAbs(diff(s)), Frac(1, current_prices[s])),
          value    |-> FracAbs(diff(s))]
         : s \in {x \in priced : FracGt(FracAbs(diff(x)),
                                        Frac(min_trade_size * Dollar, 1))}}

\* C27: rebalance_suggestions returns, over the targeted instruments that have
\* a price, a suggestion exactly for those with |total_value * target fraction
\* - current market value| > min_trade_size: a buy when the target value is the
\* higher and a sell when it is the lower, of value |difference| and quantity
\* |difference| / current price; without target allocations every instrument
\* of current_prices has the fraction 1/n.
RebalanceRule ==
    \A current_prices \in PriceDicts, target_allocations \in TargetDicts :
        MCT_rebalance_suggestions(mct, current_prices, target_allocations)
            = SuggestionsDue(mct, current_prices, target_allocations)

\* ------------------------------------------------------------------ C21
\* this step is one of handler p in get_portfolio_summary
SummaryStep(p) ==
    /\ procs'[p] # procs[p]
    /\ "get_portfolio_summary" \in {procs[p].op, procs'[p].op}

\* this step is the return of get_portfolio_summary by handler p
SummaryReturn(p) == procs[p].pc = "summary_positions" /\ procs'[p].pc = "idle"

\* what a call of get_portfolio_summary(user_id) made alone returns from the
\* tables as they are (the return step itself writes nothing)
SummaryAgain(user_id) ==
    LET a == CHOOSE x \in AccountsOf(user_id) : TRUE
    IN  PB_get_portfolio_summary(user_id, paper_account[a].cash_balance,
                                 paper_account[a].starting_cash,
                                 PB_get_positions(a))

\* the stores are left alone by the trader calls of this step
TraderValuationReadOnly ==
    last'.op = "get_portfolio" =>
        /\ vt' = vt /\ mct' = mct
        /\ \A current_prices \in PriceDicts :
              /\ VT_get_portfolio(vt', current_prices)
                    = VT_get_portfolio(vt, current_prices)
              /\ MCT_get_portfolio(mct', current_prices)
                    = MCT_get_portfolio(mct, current_prices)

\* a summary returned with one handler at a time is what the next call returns
SummaryRepeats ==
    \A p \in Procs :
        SummaryReturn(p) /\ workload = "sequential" =>
            PB_get_portfolio_summary(procs[p].user, procs[p].cash_balance,
                                     paper_account[procs[p].acct].starting_cash,
                                     PB_get_positions(procs[p].acct))
                = SummaryAgain(procs[p].user)

\* the tables are left alone by the steps of get_portfolio_summary
SummaryReadOnly ==
    \A p \in Procs :
        SummaryStep(p) =>
            UNCHANGED <<paper_account, paper_position, paper_order, paper_fill>>

\* C21: a valuation call (get_portfolio of the traders, get_portfolio_summary
\* of the broker) changes no store: accounts, cash, starting cash, positions,
\* orders and fills or trade history are after it what they were before; and
\* a second call with the same prices and nothing changed in between returns
\* the same result.
ValuationReadOnly ==
    [][TraderValuationReadOnly /\ SummaryRepeats /\ SummaryReadOnly]_vars

\* ------------------------------------------------------------------ C23
\* the account handler p works on in this step
AccountOfStep(p) == IF procs[p].acct # 0 THEN procs[p].acct ELSE procs'[p].acct

\* the rows of table that belong to another account than mine are in table2
\* as they were, and table2 has no new row of another account
OthersKept(table, table2, mine, owner(_)) ==
    /\ Len(table2) >= Len(table)
    /\ \A i \in 1..Len(table2) :
          owner(table2[i]) # mine \/ (i <= Len(table) /\ owner(table[i]) # mine)
              => i <= Len(table) /\ table2[i] = table[i]

AccountOfRow(row) == row.account_id
AccountOfFill(fill) == paper_order'[fill.order_id].account_id

\* C23: a step of an operation on one account (order submission, execution
\* and fill, cancellation, valuation) leaves every other account's cash
\* balance, positions, orders and fills as they were, whatever the
\* interleaving of the handlers of different accounts.
AccountsIndependent ==
    [][\A p \in Procs :
          procs'[p] # procs[p] =>
              /\ \A a \in 1..Len(paper_account) :
                    a # AccountOfStep(p) => paper_account'[a] = paper_account[a]
              /\ OthersKept(paper_position, paper_position', AccountOfStep(p),
                            AccountOfRow)
              /\ OthersKept(paper_order, paper_order', AccountOfStep(p),
                            AccountOfRow)
              /\ OthersKept(paper_fill, paper_fill', AccountOfStep(p),
                            AccountOfFill)
      ]_vars

\* Two accounts; one has a fill and a position, and a handler of the other
\* account is about to commit a fill of the same instrument.
OtherAccountCommitting ==
    /\ Len(paper_account) = 2
    /\ \E p \in Procs, f \in 1..Len(paper_fill) :
          /\ procs[p].pc = "commit"
          /\ OrderOfFill(f).account_id # procs[p].acct
          /\ OrderOfFill(f).instrument = paper_order[procs[p].order_id].instrument
          /\ PositionsOf(OrderOfFill(f).account_id, OrderOfFill(f).instrument) # {}

\* ------------------------------------------------------------------ C24
\* handler p commits a fill in this step
CommitStep(p) ==
    /\ procs[p].pc = "commit"
    /\ procs'[p].pc = "idle"
    /\ NewFill
    /\ paper_fill'[Len(paper_fill')].order_id = procs[p].order_id

\* C24: slippage is against the trader.  The fill of a market buy has the
\* price reference_price * (1 + slippage_bps / 10000), the fill of a market
\* sell reference_price * (1 - slippage_bps / 10000), the reference price
\* being the one fetched for the order; and no buy is filled below and no sell
\* above its reference price.
SlippageAgainstTrader ==
    [][\A p \in Procs :
          CommitStep(p) =>
              LET fill      == paper_fill'[Len(paper_fill')]
                  order     == paper_order[procs[p].order_id]
                  reference == procs[p].current_price[1]
              IN  /\ order.order_type = "market" /\ order.side = "buy" =>
                        (fill.price - reference) * BpsDivisor
                            = reference * slippage_bps
                  /\ order.order_type = "market" /\ order.side = "sell" =>
                        (reference - fill.price) * BpsDivisor
                            = reference * slippage_bps
                  /\ order.side = "buy" => fill.price >= reference
                  /\ order.side = "sell" => fill.price <= reference
      ]_vars

\* A market buy filled at a reference price of 2000 and a market sell filled
\* at one of 6000, each at its price with slippage.
BoughtAndSoldWithSlippage ==
    \E f1, f2 \in 1..Len(paper_fill) :
        /\ OrderOfFill(f1).order_type = "market" /\ OrderOfFill(f1).side = "buy"
        /\ paper_fill[f1].price = 2001 * Dollar
        /\ OrderOfFill(f2).order_type = "market" /\ OrderOfFill(f2).side = "sell"
        /\ paper_fill[f2].price = 5997 * Dollar

\* ------------------------------------------------------------------ C25
\* the price fetched lets the limit order be filled
LimitReached(order, reference) ==
    \/ order.side = "buy" /\ reference <= order.limit_price[1]
    \/ order.side = "sell" /\ reference >= order.limit_price[1]

\* handler p, holding a price for its limit order, takes its next step
LimitStep(p) ==
    /\ procs[p].pc = "priced"
    /\ procs'[p] # procs[p]
    /\ paper_order[procs[p].order_id].order_type = "limit"
    /\ Truthy(procs[p].current_price)

\* C25: a limit buy is filled only when the reference price is at most its
\* limit price, a limit sell only when it is at least its limit price.  When
\* it is not, the execution ends there: the order is left as it is (in status
\* "created" with one handler at a time), no fill is recorded and cash
\* balances and positions are unchanged.
LimitFillRule ==
    [][\A p \in Procs :
          LET order == paper_order[procs[p].order_id]
          IN  /\ CommitStep(p) /\ order.order_type = "limit" =>
                    LimitReached(order, procs[p].current_price[1])
              /\ LimitStep(p) /\ ~LimitReached(order, procs[p].current_price[1]) =>
                    /\ procs'[p].pc = "idle"
                    /\ UNCHANGED <<paper_account, paper_position, paper_order,
                                   paper_fill>>
                    /\ FillsOf(procs[p].order_id) = {}
                    /\ workload = "sequential" => order.status = "created"
      ]_vars

\* A limit buy and a limit sell rest in status "created" without a fill, their
\* handlers gone, on an account that has cash and no position.
LimitOrdersResting ==
    /\ \A p \in Procs : procs[p].pc = "idle"
    /\ paper_fill = << >> /\ paper_position = << >>
    /\ \E o1, o2 \in 1..Len(paper_order) :
          /\ paper_order[o1].order_type = "limit" /\ paper_order[o1].side = "buy"
          /\ paper_order[o2].order_type = "limit" /\ paper_order[o2].side = "sell"
          /\ paper_order[o1].status = "created"
          /\ paper_order[o2].status = "created"
          /\ paper_order[o2].limit_price = Some(HighLimitPrice)

IsPrefix(s, t) == Len(s) <= Len(t) /\ \A k \in DOMAIN s : s[k] = t[k]

\* The nodes of the cycle have run in the order of AgentNodes, all six of them
\* once the cycle has ended.
NodesInOrder ==
    /\ IsPrefix(agent.ran, AgentNodes)
    /\ agent.node = END => agent.ran = AgentNodes

\* An order was submitted only upon a buy or sell decision of quantity > 0,
\* by the act node, and it is the only one of the cycle.
OrderOnlyOnDecision ==
    agent.orders # << >> =>
        /\ Len(agent.orders) = 1
        /\ IsPrefix(<<"collect", "analyze", "risk", "decide", "act">>, agent.ran)
        /\ agent.decision # None
        /\ agent.decision[1].action \in {"buy", "sell"}
        /\ FracGt(agent.decision[1].quantity, Zero)
        /\ agent.orders[1].side = agent.decision[1].action
        /\ agent.orders[1].quantity = agent.decision[1].quantity

\* Once decide has run over risk checks that are empty or hold a false value,
\* the decision is hold with quantity 0 and the cycle submits no order.
RiskGate ==
    (/\ IsPrefix(<<"collect", "analyze", "risk", "decide">>, agent.ran)
     /\ RiskChecksFailed(agent.risk_checks))
    => /\ agent.decision # None
       /\ agent.decision[1].action = "hold"
       /\ agent.decision[1].quantity = Zero
       /\ agent.orders = << >>

\* C30: in one agent cycle the nodes run in the order collect, analyze, risk,
\* decide, act, explain; an order is submitted to the broker only if the
\* decision is buy or sell with quantity > 0; when the risk checks are empty or
\* one of them is false the decision is hold with quantity 0 and no order is
\* submitted in that cycle.
AgentCycleRule == NodesInOrder /\ OrderOnlyOnDecision /\ RiskGate

\* A finished cycle that submitted an order.
CycleSubmittedOrder ==
    /\ agent.node = END
    /\ agent.orders # << >>

\* A finished cycle whose risk checks held a false value.
CycleRiskFailed ==
    /\ agent.node = END
    /\ \E c \in DOMAIN agent.risk_checks : ~agent.risk_checks[c]

====
